---- MODULE Spec2Model ----
(***************************************************************************)
(* Model of sqlalchemy_fake_model.ModelFaker: the create() cycle, the      *)
(* per-column skip rules and value sources, the nested create cycle of a   *)
(* foreign-key resolution, and the SQLAlchemy session the cycles share.    *)
(***************************************************************************)
EXTENDS Integers, Sequences, FiniteSets, TLC

VARIABLES
    probe,      \* the column under study of the mapped class Probe (fixed metadata)
    committed,  \* durable rows of every table: table name -> sequence of entries
    pending,    \* rows added/executed in the session's open transaction
    stack,      \* active create() calls, innermost last
    exc,        \* TRUE while an exception propagates out of _generate_fake_data/store
    result,     \* outcome of the last finished top-level create()
    ops,        \* store operations invoked by the current/last top-level create()
    pre,        \* committed, as it was when the current/last top-level create() began
    call,       \* the current/last top-level create(): its instance and amount
    ncalls,     \* number of top-level create() calls started
    seq,        \* history of the finished top-level calls, see SeqAfter
    returned    \* what the last finished call returned (None for create())

vars == <<probe, committed, pending, stack, exc, result, ops, pre, call, ncalls, seq,
          returned>>

(* ------------------------------ bounds --------------------------------- *)
MaxRand == 2      \* distinct values the faker can return per kind
MaxCalls == 2     \* top-level create() calls per behaviour
MaxProbeCalls == 1 \* top-level create() calls per behaviour of SpecColumns
MaxResetCalls == 3 \* create() and reset() calls per behaviour of SpecReset
MaxChainCalls == 1 \* top-level create() calls per behaviour of SpecChains
\* nested create() calls the interpreter allows before it raises RecursionError
RecursionLimit == 4

(* ------------------------------ values --------------------------------- *)
Val(kind, v) == [kind |-> kind, v |-> v]
NULL == Val("null", 0)
DefaultArg == Val("default", 0)
RandVals == 1..MaxRand
EmptyRow == [n \in {} |-> NULL]

(* ------------------------- schema description -------------------------- *)
\* column.info: the keys "min" and "max" it holds (has = FALSE: key absent)
\* and whether it holds any other key
Info(hasMin, min, hasMax, max, other) ==
    [hasMin |-> hasMin, min |-> min, hasMax |-> hasMax, max |-> max,
     other |-> other]
NoInfo == Info(FALSE, 0, FALSE, 0, FALSE)

\* column.type.precision of a Float: absent, a number, or a (precision, scale) pair
NoPrecision == [kind |-> "none", p |-> 0, s |-> 0]
IntPrecision(p) == [kind |-> "int", p |-> p, s |-> 0]
PairPrecision(p, s) == [kind |-> "pair", p |-> p, s |-> s]

\* String(80), as MyModel.string_field; length = NoLength for String()
StringLength == 80
NoLength == -1

\* a column with an empty info map, String length 80 and no Float precision;
\* relationship: the mapper of the column's class has a relationship under the
\* column's name
Col(name, type, nullable, default, pk, autoinc, fk, fkcol, doc) ==
    [name |-> name, type |-> type, nullable |-> nullable, default |-> default,
     primary_key |-> pk, autoincrement |-> autoinc, fk |-> fk, fkcol |-> fkcol,
     doc |-> doc, length |-> StringLength, info |-> NoInfo,
     precision |-> NoPrecision, relationship |-> FALSE]

IdCol == Col("id", "Integer", FALSE, FALSE, TRUE, TRUE, "none", "none", "none")

ColumnTypes == {"String", "Integer", "Float", "Boolean", "Date", "DateTime",
                "Enum", "Time"}

ProbeColumns ==
    { Col("p", t, n, d, pk, ai, fk[1], fk[2], doc) :
        t \in ColumnTypes, n \in BOOLEAN, d \in BOOLEAN, pk \in BOOLEAN,
        ai \in BOOLEAN,
        fk \in {<<"none", "none">>, <<"Parent", "id">>, <<"Parent2", "name">>},
        doc \in {"none", "valid", "malformed"} }

TableNames == {"Parent", "Parent2", "Child", "Child3", "Assoc", "Probe", "Linked",
               "Node", "Loop"}

\* entity = the model is a mapped class (has __table__/__mapper__);
\* a plain Table (association table) has entity = FALSE
Models ==
    [t \in TableNames |->
       CASE t = "Parent" ->
              [entity |-> TRUE,
               columns |-> << IdCol,
                  Col("code", "String", TRUE, FALSE, FALSE, FALSE, "none", "none", "none"),
                  Col("status", "String", FALSE, TRUE, FALSE, FALSE, "none", "none", "none") >>]
         [] t = "Parent2" ->
              [entity |-> TRUE,
               columns |-> << Col("name", "String", FALSE, FALSE, TRUE, TRUE, "none", "none", "none") >>]
         [] t = "Child" ->
              [entity |-> TRUE,
               columns |-> << IdCol,
                  Col("foreign_key", "Integer", FALSE, FALSE, FALSE, FALSE, "Parent", "id", "none") >>]
         [] t = "Child3" ->
              [entity |-> TRUE,
               columns |-> << IdCol,
                  Col("foreign_key", "String", FALSE, FALSE, FALSE, FALSE, "Parent2", "name", "none") >>]
         [] t = "Assoc" ->
              [entity |-> FALSE,
               columns |-> <<
                  Col("parent_id", "Integer", FALSE, FALSE, TRUE, FALSE, "Parent", "id", "none"),
                  Col("parent2_name", "String", FALSE, FALSE, TRUE, FALSE, "Parent2", "name", "none") >>]
         \* a nullable and a non-nullable foreign key of a schema to itself
         [] t = "Node" ->
              [entity |-> TRUE,
               columns |-> << IdCol,
                  Col("parent_id", "Integer", TRUE, FALSE, FALSE, FALSE, "Node", "id", "none") >>]
         [] t = "Loop" ->
              [entity |-> TRUE,
               columns |-> << IdCol,
                  Col("next_id", "Integer", FALSE, FALSE, FALSE, FALSE, "Loop", "id", "none") >>]
         [] t = "Linked" ->
              [entity |-> TRUE,
               columns |-> << IdCol,
                  Col("parent_id", "Integer", FALSE, FALSE, FALSE, FALSE, "Parent", "id", "none"),
                  probe >>]
         [] OTHER ->
              [entity |-> TRUE, columns |-> << IdCol, probe >>] ]

PlainProbe == Col("p", "String", FALSE, FALSE, FALSE, FALSE, "none", "none", "none")

InitProbes == {PlainProbe}

\* the info maps of Integer columns: empty, other keys only, min and/or max
InfoKeys == {-1000000, 7, 100, 101, 1000000}
IntegerInfos ==
    { Info(hm, IF hm THEN a ELSE 0, hx, IF hx THEN b ELSE 0, o) :
        hm \in BOOLEAN, a \in InfoKeys, hx \in BOOLEAN, b \in InfoKeys,
        o \in BOOLEAN }

\* String(), String(3), String(5), String(80), String(10000)
StringLengths == {NoLength, 3, 5, StringLength, 10000}

\* Float(), Float(5), Float((p, s))
Precisions ==
    {NoPrecision, IntPrecision(5)}
      \cup { PairPrecision(p, s) : p \in {1, 2, 5}, s \in {0, 1, 2} }

\* the doc strings of DocText, on a Text and on an Integer column
DocNames == {"valid", "list", "object", "roundtrip", "numbers", "flags",
             "literals", "scalar", "malformed"}
DocProbes ==
    { [PlainProbe EXCEPT !.type = t, !.doc = doc] :
        t \in {"Text", "Integer"}, doc \in DocNames }

\* column types the isinstance chain has no branch for
OtherTypes == {"Time", "Decimal", "Interval", "LargeBinary", "Json"}

\* columns that reach the primary-key branch or the isinstance chain
ValueProbes ==
    { [PlainProbe EXCEPT !.type = "Integer", !.info = i] : i \in IntegerInfos }
      \cup { [PlainProbe EXCEPT !.type = t, !.length = l] :
                t \in {"String", "Text"}, l \in StringLengths }
      \cup { [PlainProbe EXCEPT !.type = "Float", !.precision = pr] :
                pr \in Precisions }
      \cup { [PlainProbe EXCEPT !.type = t, !.primary_key = TRUE,
                                !.autoincrement = a] :
                t \in {"Integer", "String", "Float", "Boolean", "Date"},
                a \in BOOLEAN }
      \cup { [PlainProbe EXCEPT !.type = "Integer", !.primary_key = pk,
                                !.fk = "Parent", !.fkcol = "id"] :
                pk \in BOOLEAN }
      \cup { [PlainProbe EXCEPT !.type = t, !.nullable = n] :
                t \in OtherTypes \cup {"Boolean", "Date", "DateTime"},
                n \in BOOLEAN }

(* ---------------------------- configuration ---------------------------- *)
ModelFakerConfig ==
    [fill_nullable_fields : BOOLEAN, fill_default_fields : BOOLEAN]

DefaultConfig == [fill_nullable_fields |-> FALSE, fill_default_fields |-> FALSE]

\* ModelFaker.__init__: an instance is its model and its configuration; the
\* session (db) is the one shared store of this model
ModelFaker == [model : TableNames, config : ModelFakerConfig]

ProbeFakers == { f \in ModelFaker : f.model = "Probe" }

\* what custom_status of test_field_overrides returns
CustomStatus == Val("ACTIVE", 0)

\* a configuration object that was given the attribute field_overrides, a
\* mapping from the column name to the value its function returns
WithFieldOverrides(config) ==
    [fill_nullable_fields |-> config.fill_nullable_fields,
     fill_default_fields |-> config.fill_default_fields,
     field_overrides |-> ("p" :> CustomStatus)]

\* a configuration object that was given the attributes seed and bulk_size
TestSeed == 12345
WithSeedAndBulkSize(config, seed, bulk_size) ==
    [fill_nullable_fields |-> config.fill_nullable_fields,
     fill_default_fields |-> config.fill_default_fields,
     seed |-> seed, bulk_size |-> bulk_size]

\* faker1 and faker2 of test_seed_reproducibility, with a bulk size of 1 as in
\* test_edge_case_bulk_size_one
ConfiguredFakers ==
    { [model |-> "Probe",
       config |-> WithSeedAndBulkSize(DefaultConfig, TestSeed, 1)] }

OverrideFakers ==
    { [model |-> "Probe", config |-> WithFieldOverrides(config)] :
        config \in ModelFakerConfig }

\* the instances the session specification calls create() on; Parent2 rows are
\* created through the foreign keys of Child3 and Assoc
SessionFakers ==
    { f \in ModelFaker :
        \/ f.model \in {"Parent", "Child", "Child3", "Assoc"} /\ f.config = DefaultConfig
        \/ f.model = "Child" /\ f.config = [DefaultConfig EXCEPT !.fill_nullable_fields = TRUE] }

(* ------------------------------ amounts -------------------------------- *)
IntAmount(n) == [kind |-> "int", n |-> n]
NonIntAmount(k) == [kind |-> k, n |-> 0]
\* the amounts the tests pass: negative, zero, positive, "5", 5.5 and None
Amounts ==
    { IntAmount(n) : n \in {-1, 0, 1, 2} }
      \cup { NonIntAmount(k) : k \in {"str", "float", "none"} }

\* create(self, amount=1): the amount of a call without argument
DefaultAmount == IntAmount(1)

\* __handle_relationship calls create() without an argument
NestedAmountTwo == IntAmount(2)
NestedAmount == DefaultAmount

\* create line 96: isinstance(amount, int)
IsInstanceAny(amount) == TRUE
IsInstanceInt(amount) == amount.kind = "int"

(* ----------------------------- skip rules ------------------------------ *)
\* self is a create() frame; its entity flag tells whether the model it was
\* constructed on has __table__ / __mapper__ (a mapped class) or is a Table
IsTableAlways(self) == TRUE

__is_many_to_many_relation_table(self) == ~self.entity

__get_table_columns(model) == Models[model].columns

AutoIncrementAnyType(column) == column.autoincrement
__is_field_auto_increment(column) ==
    column.autoincrement /\ column.type = "Integer"

HasDefaultIgnoringConfig(config, column) == column.default
__has_field_default_value(config, column) ==
    column.default /\ ~config.fill_default_fields

NullableNeverSkipped(config, column) == FALSE
__is_field_nullable(config, column) ==
    column.nullable /\ ~config.fill_nullable_fields

\* a rule that looks at the doc string before the skip rules
SkipUnlessDoc(config, column) ==
    /\ column.doc = "none"
    /\ \/ (column.primary_key /\ __is_field_auto_increment(column))
       \/ __has_field_default_value(config, column)
       \/ __is_field_nullable(config, column)

__should_skip_field(config, column) ==
    \/ (column.primary_key /\ __is_field_auto_increment(column))
    \/ __has_field_default_value(config, column)
    \/ __is_field_nullable(config, column)

(* ------------------------------- faker --------------------------------- *)
\* the outcomes of a random draw from lo..hi that are followed: the first
\* MaxRand values, the last MaxRand values and the middle one
Draw(lo, hi) ==
    IF lo > hi THEN {}
    ELSE { v \in { lo + k : k \in 0..(MaxRand - 1) }
                   \cup { hi - k : k \in 0..(MaxRand - 1) }
                   \cup { (lo + hi) \div 2 } : lo <= v /\ v <= hi }

\* faker.random_int(min=0, max=9999): randrange(min, max + 1), which raises
\* for an empty range (the empty set)
RandomIntMin == 0
RandomIntMax == 9999
random_int(min, max) == { Val("int", v) : v \in Draw(min, max) }

\* faker.text(max_nb_chars): raises below 5 characters and for None, otherwise
\* a text of at most max_nb_chars characters; a string is known by its length
TextMinChars == 5
text(max_nb_chars) ==
    IF max_nb_chars = NoLength \/ max_nb_chars < TextMinChars THEN {}
    ELSE { Val("str", v) : v \in Draw(1, max_nb_chars) }

\* faker.word(): a word of a few characters
word == { Val("str", v) : v \in RandVals }

RECURSIVE Pow10(_)
Pow10(k) == IF k <= 0 THEN 1 ELSE 10 * Pow10(k - 1)

\* a float is the number of its units of 10^-FloatDigits
FloatDigits == 3
FloatUnit == Pow10(FloatDigits)

\* faker.pyfloat(min_value, max_value), both given as whole numbers: raises
\* when min_value >= max_value, otherwise a float between them
pyfloat(min_value, max_value) ==
    IF min_value >= max_value THEN {}
    ELSE Draw(min_value * FloatUnit, max_value * FloatUnit)

\* round(x, ndigits) for 0 <= ndigits <= FloatDigits: to the nearest multiple
\* of 10^-ndigits, a tie to the even one
round(x, ndigits) ==
    LET step == Pow10(FloatDigits - ndigits)
        q == x \div step
        r == x % step
    IN IF (2 * r > step) \/ (2 * r = step /\ q % 2 = 1)
       THEN (q + 1) * step
       ELSE q * step

(* ---------------------------- value sources ---------------------------- *)
\* _generate_primitive: compares its argument with the literal type names and
\* falls back to faker.word(); a column type object equals none of the literals
_generate_primitive(primitive_type) ==
    CASE primitive_type = "boolean"  -> { Val("bool", v) : v \in RandVals }
      [] primitive_type = "datetime" -> { Val("isodatetime", v) : v \in RandVals }
      [] primitive_type = "date"     -> { Val("isodate", v) : v \in RandVals }
      [] primitive_type = "integer"  -> random_int(RandomIntMin, RandomIntMax)
      [] primitive_type = "string"   -> word
      [] primitive_type = "float"    -> { Val("float", v) : v \in RandVals }
      [] OTHER                       -> word

(* ------------------------------ doc strings ---------------------------- *)
\* a text is the sequence of its tokens: k is the kind of token, s the
\* characters of a punctuation mark or of a literal string, n the number of a
\* numeric token or the length of a synthesized string
Tok(k, s, n) == [k |-> k, s |-> s, n |-> n]
P(s) == Tok("punct", s, 0)
Q(s) == Tok("dq", s, 0)

\* a Python object: t is its type (dict, list, str, int, float, bool, none);
\* a str is a literal (s) or a synthesized word or date text (gen, n)
Node(t, gen, s, n, keys, items) ==
    [t |-> t, gen |-> gen, s |-> s, n |-> n, keys |-> keys, items |-> items]
Scalar(t, gen, s, n) == Node(t, gen, s, n, <<>>, <<>>)
PyNone == Scalar("none", "", "", 0)
PyList(items) == Node("list", "", "", 0, <<>>, items)
PyDict(keys, items) == Node("dict", "", "", 0, keys, items)

ParseError == [ok |-> FALSE, node |-> PyNone, next |-> 0]
Parsed(node, next) == [ok |-> TRUE, node |-> node, next |-> next]

\* json.loads: a recursive-descent JSON parser over the tokens; strings are
\* double-quoted, the constants are true, false and null
RECURSIVE ParseValue(_, _)
RECURSIVE ParseItems(_, _, _)
RECURSIVE ParseMembers(_, _, _, _)
ParseValue(toks, i) ==
    IF i > Len(toks) THEN ParseError
    ELSE LET t == toks[i]
         IN CASE t.k = "dq"    -> Parsed(Scalar("str", "", t.s, t.n), i + 1)
              [] t.k = "int"   -> Parsed(Scalar("int", "", "", t.n), i + 1)
              [] t.k = "float" -> Parsed(Scalar("float", "", "", t.n), i + 1)
              [] t.k \in {"true", "false"}
                               -> Parsed(Scalar("bool", "", t.k, 0), i + 1)
              [] t.k = "null"  -> Parsed(PyNone, i + 1)
              [] t = P("[") ->
                   IF i < Len(toks) /\ toks[i + 1] = P("]")
                   THEN Parsed(PyList(<<>>), i + 2)
                   ELSE ParseItems(toks, i + 1, <<>>)
              [] t = P("{") ->
                   IF i < Len(toks) /\ toks[i + 1] = P("}")
                   THEN Parsed(PyDict(<<>>, <<>>), i + 2)
                   ELSE ParseMembers(toks, i + 1, <<>>, <<>>)
              [] OTHER -> ParseError

ParseItems(toks, i, acc) ==
    LET r == ParseValue(toks, i)
    IN IF ~r.ok \/ r.next > Len(toks) THEN ParseError
       ELSE IF toks[r.next] = P(",")
            THEN ParseItems(toks, r.next + 1, Append(acc, r.node))
       ELSE IF toks[r.next] = P("]")
            THEN Parsed(PyList(Append(acc, r.node)), r.next + 1)
       ELSE ParseError

ParseMembers(toks, i, keys, acc) ==
    IF i + 1 > Len(toks) \/ toks[i].k # "dq" \/ toks[i + 1] # P(":")
    THEN ParseError
    ELSE LET r == ParseValue(toks, i + 2)
         IN IF ~r.ok \/ r.next > Len(toks) THEN ParseError
            ELSE IF toks[r.next] = P(",")
                 THEN ParseMembers(toks, r.next + 1, Append(keys, toks[i].s),
                                   Append(acc, r.node))
            ELSE IF toks[r.next] = P("}")
                 THEN Parsed(PyDict(Append(keys, toks[i].s), Append(acc, r.node)),
                             r.next + 1)
            ELSE ParseError

loads(toks) ==
    LET r == ParseValue(toks, 1)
    IN IF r.ok /\ r.next = Len(toks) + 1 THEN r ELSE ParseError

\* the Python object a synthesized value is
AsNode(x) ==
    CASE x.kind = "bool"        -> Scalar("bool", "", "", x.v)
      [] x.kind = "int"         -> Scalar("int", "", "", x.v)
      [] x.kind = "float"       -> Scalar("float", "", "", x.v)
      [] x.kind = "isodate"     -> Scalar("str", "date", "", x.v)
      [] x.kind = "isodatetime" -> Scalar("str", "datetime", "", x.v)
      [] OTHER                  -> Scalar("str", "word", "", x.v)

\* what _populate_json_structure hands to _generate_primitive for a leaf
LeafName(node) == IF node.t = "str" THEN node.s ELSE "not a string"

\* lines 294-305: every value of a dict or list that is not itself a dict or
\* list goes through _generate_primitive
PopulateLeaf(node) == { AsNode(x) : x \in _generate_primitive(LeafName(node)) }

\* _populate_json_structure: the structures it can return
RECURSIVE _populate_json_structure(_)
RECURSIVE PopulateAll(_)
_populate_json_structure(structure) ==
    CASE structure.t = "dict" ->
           { PyDict(structure.keys, items) : items \in PopulateAll(structure.items) }
      [] structure.t = "list" ->
           { PyList(items) : items \in PopulateAll(structure.items) }
      [] OTHER -> { structure }

PopulateAll(items) ==
    IF items = <<>> THEN { <<>> }
    ELSE { <<h>> \o t :
             h \in (IF Head(items).t \in {"dict", "list"}
                    THEN _populate_json_structure(Head(items))
                    ELSE PopulateLeaf(Head(items))),
             t \in PopulateAll(Tail(items)) }

\* str() of a Python object: its repr, with single-quoted strings and the
\* constants True, False and None; str() of a str is the str itself
RECURSIVE repr(_)
RECURSIVE ReprItems(_, _)
repr(node) ==
    CASE node.t = "dict"  -> <<P("{")>> \o ReprItems(node.keys, node.items) \o <<P("}")>>
      [] node.t = "list"  -> <<P("[")>> \o ReprItems(<<>>, node.items) \o <<P("]")>>
      [] node.t = "str"   -> << Tok("sq", node.s, node.n) >>
      [] node.t = "bool"  -> << Tok(IF node.n % 2 = 1 THEN "True" ELSE "False", "", 0) >>
      [] node.t = "none"  -> << Tok("None", "", 0) >>
      [] OTHER            -> << Tok(node.t, "", node.n) >>

ReprItems(keys, items) ==
    IF items = <<>> THEN <<>>
    ELSE (IF keys = <<>> THEN <<>> ELSE << Tok("sq", Head(keys), 0), P(":") >>)
         \o repr(Head(items))
         \o (IF Len(items) > 1 THEN <<P(",")>> ELSE <<>>)
         \o ReprItems(IF keys = <<>> THEN <<>> ELSE Tail(keys), Tail(items))

str(node) ==
    IF node.t = "str" THEN << Tok("bare", node.s, node.n) >> ELSE repr(node)

\* the doc strings of the columns
DocText(doc) ==
    CASE doc = "valid" -> << P("["), Q("string"), P("]") >>
      [] doc = "list" ->
           << P("["), Q("string"), P(","), Q("integer"), P(","), Q("float"),
              P(","), Q("date"), P(","), Q("datetime"), P("]") >>
      [] doc = "object" ->
           << P("{"), Q("street"), P(":"), Q("string"), P(","),
              Q("location"), P(":"),
              P("{"), Q("city"), P(":"), Q("string"), P(","),
                      Q("zip"), P(":"), Q("integer"), P("}"), P("}") >>
      [] doc = "roundtrip" ->
           << P("{"), Q("a"), P(":"), Q("string"), P(","), Q("b"), P(":"),
              P("["), Q("integer"), P(","), Q("float"), P("]"), P("}") >>
      [] doc = "numbers" ->
           << P("["), Q("integer"), P(","), Q("float"), P("]") >>
      [] doc = "flags" ->
           << P("["), Q("boolean"), P("]") >>
      [] doc = "literals" ->
           << P("{"), Q("unit"), P(":"), Q("kg"), P(","), Q("count"), P(":"),
              Tok("int", "", 5), P(","), Q("tag"), P(":"), Tok("null", "", 0),
              P("}") >>
      [] doc = "scalar" -> << Q("integer") >>
      [] doc = "malformed" -> << P("{"), Q("street"), P(":") >>
      [] OTHER -> <<>>

\* _generate_json_data followed by str(), line 138; json.loads raises for a
\* doc string that is no JSON document (the empty set)
DocValues(doc) ==
    LET json_structure == loads(DocText(doc))
    IN IF ~json_structure.ok THEN {}
       ELSE { Val("text", str(data)) :
                data \in _populate_json_structure(json_structure.node) }

\* the isinstance chain of _generate_fake_data, lines 154-189
\* lines 160-167: an empty info map takes faker's own range, any other one
\* info.get("min", 1) and info.get("max", 100)
InfoDefaultMin == 1
InfoDefaultMax == 100

OneAboveMax(info) ==
    [min |-> IF info.hasMin THEN info.min ELSE InfoDefaultMin,
     max |-> (IF info.hasMax THEN info.max ELSE InfoDefaultMax) + 1]

IntegerRange(info) ==
    IF ~(info.hasMin \/ info.hasMax \/ info.other)
    THEN [min |-> RandomIntMin, max |-> RandomIntMax]
    ELSE [min |-> IF info.hasMin THEN info.min ELSE InfoDefaultMin,
          max |-> IF info.hasMax THEN info.max ELSE InfoDefaultMax]

\* lines 174-176: max_value = 10 ** (precision[0] - precision[1]) - 1; for a
\* scale above the precision the power is below 1 and max_value below 0,
\* which pyfloat rejects as it rejects 0
FloatMaxValue(precision) == Pow10(precision.p - precision.s) - 1

\* lines 169-178: no precision gives any float; precision[0] raises for a
\* precision that is a number; a pair gives a rounded float in 0..max_value
FloatValues(precision) ==
    CASE precision.kind = "none" -> { Val("float", v) : v \in RandVals }
      [] precision.kind = "int"  -> {}
      [] OTHER ->
           { Val("float", round(x, precision.s)) :
               x \in pyfloat(0, FloatMaxValue(precision)) }

TypeFallback(column) ==
    CASE column.type \in {"String", "Text"} -> text(column.length)
      [] column.type = "Integer"  ->
           random_int(IntegerRange(column.info).min, IntegerRange(column.info).max)
      [] column.type = "Float"    -> FloatValues(column.precision)
      [] column.type = "Boolean"  -> { Val("bool", v) : v \in RandVals }
      [] column.type = "Date"     -> { Val("date", v) : v \in RandVals }
      [] column.type = "DateTime" -> { Val("datetime", v) : v \in RandVals }
      [] OTHER                    -> { NULL }

ForeignKeyBeforeEnum(column) ==
    IF column.doc # "none" THEN "doc"
    ELSE IF column.fk # "none" THEN "fk"
    ELSE IF column.type = "Enum" THEN "enum"
    ELSE IF column.primary_key THEN "pk"
    ELSE "type"

\* which branch of _generate_fake_data a column takes (lines 137-189)
ValueSource(column) ==
    IF column.doc # "none" THEN "doc"
    ELSE IF column.type = "Enum" THEN "enum"
    ELSE IF column.fk # "none" THEN "fk"
    ELSE IF column.primary_key THEN "pk"
    ELSE "type"

\* the values a branch other than the foreign-key one can return;
\* the empty set means the branch raises (json.loads on a malformed doc string)
SourceValues(src, column) ==
    CASE src = "doc"  -> DocValues(column.doc)
      [] src = "enum" -> { Val("enum", v) : v \in RandVals }
      [] src = "pk"   -> _generate_primitive(column.type)
      [] OTHER        -> TypeFallback(column)

\* __get_related_class: the class of the relationship named as the column, a
\* mapped class, or else the Table of the foreign key's column
__get_related_class(self, column) ==
    IF ~__is_many_to_many_relation_table(self) /\ column.relationship
    THEN [model |-> column.fk, entity |-> TRUE]
    ELSE [model |-> column.fk, entity |-> FALSE]

\* line 198: ModelFaker(parent_model, self.db) is given no config, so
\* __init__ (line 47) takes ModelFakerConfig()
CallerConfig(config) == config

NestedConfig(config) == DefaultConfig

(* ------------------------ the session (store) -------------------------- *)
RECURSIVE MaxId(_)
MaxId(rows) ==
    IF rows = <<>> THEN 0
    ELSE LET m == MaxId(Tail(rows))
             r == Head(rows)
             i == IF "id" \in DOMAIN r /\ r["id"].kind = "int" THEN r["id"].v ELSE 0
         IN IF i > m THEN i ELSE m

\* the row the database stores for the supplied data: the ORM leaves out
\* attributes that are None, a Core insert renders them as NULL; a column left
\* out gets its default, an integer primary key its next id, otherwise NULL
StoredRow(table, entity, data, existing) ==
    [ n \in { __get_table_columns(table)[k].name :
                k \in 1..Len(__get_table_columns(table)) } |->
        LET c == CHOOSE c \in { __get_table_columns(table)[k] :
                                  k \in 1..Len(__get_table_columns(table)) } :
                     c.name = n
            given == n \in DOMAIN data
                     /\ (entity => data[n] # NULL)
        IN IF given THEN data[n]
           ELSE IF c.default THEN DefaultArg
           ELSE IF c.primary_key /\ c.type = "Integer"
                THEN Val("int", MaxId(existing) + 1)
           ELSE NULL ]

\* NOT NULL constraint of the table
ViolatesNotNull(table, row) ==
    \E k \in 1..Len(__get_table_columns(table)) :
        LET c == __get_table_columns(table)[k]
        IN ~c.nullable /\ row[c.name] = NULL

\* flush of the pending rows, in the order they were added
RECURSIVE Flush(_, _)
Flush(pend, db) ==
    IF pend = <<>> THEN db
    ELSE LET e == Head(pend)
         IN Flush(Tail(pend),
                  [db EXCEPT ![e.table] =
                      Append(@, StoredRow(e.table, e.entity, e.data, @))])

FlushFails(pend, db) ==
    LET after == Flush(pend, db)
    IN \E t \in TableNames : \E k \in 1..Len(after[t]) :
          ViolatesNotNull(t, after[t][k])

\* db.query(parent_model): the rows the session sees (autoflush), first() is
\* the head
Query(table) == Flush(pending, committed)[table]

\* line 200: .first() is the oldest row the query sees
NewestRow(rows) == rows[Len(rows)]
first(rows) == Head(rows)

\* lines 146-149: getattr(row, related_attribute)
RelatedAttribute(row, column) == row[column.fkcol]

(* --------------------------- create() frames --------------------------- *)
\* one active create(): i counts range(amount), col is the column the inner
\* loop is at, data the row under construction, used the value sources
\* entered for the row so far; pc = "query" while __handle_relationship waits
\* for its nested create()
Frame(model, entity, config, amount) ==
    [model |-> model, entity |-> entity, config |-> config, amount |-> amount,
     i |-> 0, col |-> 1,
     data |-> EmptyRow, used |-> <<>>, pc |-> "loop"]

Top == stack[Len(stack)]
Pop == SubSeq(stack, 1, Len(stack) - 1)
SetTop(f) == [stack EXCEPT ![Len(stack)] = f]
Columns(f) == __get_table_columns(f.model)
Running == stack # <<>> /\ ~exc
InRow(f) == f.pc = "loop" /\ f.i < f.amount.n
AtColumn(f) == InRow(f) /\ f.col <= Len(Columns(f))

CallRecord(self, amount) ==
    [model |-> self.model, config |-> self.config, amount |-> amount]

NoCall == [model |-> "none", config |-> DefaultConfig, amount |-> IntAmount(0)]

\* history of the finished top-level calls: the one schema they were all
\* issued on, whether they all succeeded, and the sum of their amounts; a
\* history with a failed call or with two schemas is kept as DeadSeq
NoSeq == [model |-> "none", ok |-> TRUE, sum |-> 0]
DeadSeq == [model |-> "mixed", ok |-> FALSE, sum |-> 0]
SeqAfter(c, res) ==
    IF res = "ok" /\ seq.ok /\ seq.model \in {"none", c.model}
    THEN [model |-> c.model, ok |-> TRUE, sum |-> seq.sum + c.amount.n]
    ELSE DeadSeq

(* ------------------------------ actions -------------------------------- *)
Init ==
    /\ probe \in InitProbes
    /\ committed = [t \in TableNames |-> <<>>]
    /\ pending = <<>>
    /\ stack = <<>>
    /\ exc = FALSE
    /\ result = "none"
    /\ ops = <<>>
    /\ pre = committed
    /\ call = NoCall
    /\ ncalls = 0
    /\ seq = NoSeq
    /\ returned = NULL

\* ModelFaker(model, db, config=config).create(amount), lines 96-99:
\* a non-integer amount raises InvalidAmountError before the try block
Create(self, amount) ==
    /\ stack = <<>>
    /\ ncalls < MaxCalls
    /\ ncalls' = ncalls + 1
    /\ call' = CallRecord(self, amount)
    /\ ops' = <<>>
    /\ pre' = committed
    /\ returned' = NULL
    /\ UNCHANGED <<probe, committed, pending>>
    /\ IF ~IsInstanceInt(amount)
       THEN /\ result' = "InvalidAmountError"
            /\ seq' = SeqAfter(call', "InvalidAmountError")
            /\ UNCHANGED <<stack, exc>>
       ELSE /\ stack' = <<Frame(self.model, Models[self.model].entity, self.config,
                                 amount)>>
            \* range(amount) raises TypeError inside the try for a non-integer
            /\ exc' = (amount.kind # "int")
            /\ result' = "none"
            /\ UNCHANGED seq

\* lines 103-105: the column is skipped
SkipField ==
    /\ Running /\ AtColumn(Top)
    /\ __should_skip_field(Top.config, Columns(Top)[Top.col])
    /\ stack' = SetTop([Top EXCEPT !.col = @ + 1])
    /\ UNCHANGED <<probe, committed, pending, exc, result, ops, pre, call, ncalls, seq, returned>>

\* line 107 with _generate_fake_data, every branch but the foreign-key one
GenerateFakeData ==
    /\ Running /\ AtColumn(Top)
    /\ LET column == Columns(Top)[Top.col]
           src == ValueSource(column)
           used == Append(Top.used, [col |-> column.name, src |-> src])
       IN /\ ~__should_skip_field(Top.config, column)
          /\ src # "fk"
          /\ IF SourceValues(src, column) = {}
             THEN /\ exc' = TRUE
                  /\ stack' = SetTop([Top EXCEPT !.used = used])
             ELSE /\ \E v \in SourceValues(src, column) :
                        stack' = SetTop([Top EXCEPT
                                    !.data = (column.name :> v) @@ @,
                                    !.used = used,
                                    !.col = @ + 1])
                  /\ UNCHANGED exc
    /\ UNCHANGED <<probe, committed, pending, result, ops, pre, call, ncalls, seq, returned>>

\* lines 145-149 and 196-198: the foreign-key branch starts a nested
\* ModelFaker(parent_model, self.db).create()
HandleRelationship ==
    /\ Running /\ AtColumn(Top)
    /\ LET column == Columns(Top)[Top.col]
           src == ValueSource(column)
       IN /\ ~__should_skip_field(Top.config, column)
          /\ src = "fk"
          /\ IF Len(stack) >= RecursionLimit
             THEN \* RecursionError, caught by the except clause of line 117
                  /\ exc' = TRUE
                  /\ UNCHANGED stack
             ELSE /\ stack' = Append(
                        SetTop([Top EXCEPT
                           !.used = Append(@, [col |-> column.name, src |-> src]),
                           !.pc = "query"]),
                        Frame(__get_related_class(Top, column).model,
                              __get_related_class(Top, column).entity,
                              NestedConfig(Top.config), NestedAmount))
                  /\ UNCHANGED exc
    /\ UNCHANGED <<probe, committed, pending, result, ops, pre, call, ncalls, seq, returned>>

\* line 200 and lines 146-149: db.query(parent_model).first() and getattr
RelationshipQuery ==
    /\ Running /\ Top.pc = "query"
    /\ ops' = Append(ops, "query")
    /\ LET column == Columns(Top)[Top.col]
           seen == Query(__get_related_class(Top, column).model)
       IN \E err \in BOOLEAN :
            IF err \/ seen = <<>>
            THEN /\ exc' = TRUE
                 /\ UNCHANGED stack
            ELSE /\ stack' = SetTop([Top EXCEPT
                        !.data = (column.name :> RelatedAttribute(first(seen), column)) @@ @,
                        !.col = @ + 1,
                        !.pc = "loop"])
                 /\ UNCHANGED exc
    /\ UNCHANGED <<probe, committed, pending, result, pre, call, ncalls, seq, returned>>

\* lines 109-113: db.execute(insert().values(**data)) or db.add(model(**data))
InsertRow ==
    /\ Running /\ InRow(Top) /\ Top.col > Len(Columns(Top))
    /\ LET core == __is_many_to_many_relation_table(Top)
           row == StoredRow(Top.model, Top.entity, Top.data, Query(Top.model))
       IN /\ ops' = Append(ops, IF core THEN "execute" ELSE "add")
          /\ \E err \in BOOLEAN :
               IF err \/ (core /\ ViolatesNotNull(Top.model, row))
               THEN /\ exc' = TRUE
                    /\ UNCHANGED <<stack, pending>>
               ELSE /\ pending' = Append(pending,
                           [table |-> Top.model, entity |-> Top.entity,
                            data |-> Top.data])
                    /\ stack' = SetTop([Top EXCEPT
                           !.i = @ + 1, !.col = 1,
                           !.data = EmptyRow, !.used = <<>>])
                    /\ UNCHANGED exc
    /\ UNCHANGED <<probe, committed, result, pre, call, ncalls, seq, returned>>

\* line 115: db.commit() once range(amount) is exhausted
Commit ==
    /\ Running /\ Top.pc = "loop" /\ Top.i >= Top.amount.n
    /\ ops' = Append(ops, "commit")
    /\ \E err \in BOOLEAN :
         IF err \/ FlushFails(pending, committed)
         THEN /\ exc' = TRUE
              /\ UNCHANGED <<committed, pending, stack, result, seq>>
         ELSE /\ committed' = Flush(pending, committed)
              /\ pending' = <<>>
              /\ stack' = Pop
              /\ UNCHANGED exc
              /\ IF Len(stack) = 1
                 THEN /\ result' = "ok"
                      /\ seq' = SeqAfter(call, "ok")
                 ELSE UNCHANGED <<result, seq>>
    /\ UNCHANGED <<probe, pre, call, ncalls, returned>>

\* lines 117-121: db.rollback() and raise RuntimeError; in a nested create()
\* the RuntimeError propagates into the caller's try block
HandleException ==
    /\ stack # <<>> /\ exc
    /\ ops' = Append(ops, "rollback")
    /\ pending' = <<>>
    /\ stack' = Pop
    /\ IF Len(stack) = 1
       THEN /\ exc' = FALSE
            /\ result' = "RuntimeError"
            /\ seq' = SeqAfter(call, "RuntimeError")
       ELSE UNCHANGED <<exc, result, seq>>
    /\ UNCHANGED <<probe, committed, pre, call, ncalls, returned>>

Step ==
    \/ SkipField
    \/ GenerateFakeData
    \/ HandleRelationship
    \/ RelationshipQuery
    \/ InsertRow
    \/ Commit
    \/ HandleException

Next ==
    \/ \E self \in SessionFakers, amount \in Amounts : Create(self, amount)
    \/ Step

Spec == Init /\ [][Next]_vars

(* A second specification: the mapped class Probe is declared with any column
   of ProbeColumns, and create() is called on it under every configuration. *)
InitColumns ==
    /\ probe \in ProbeColumns
    /\ committed = [t \in TableNames |-> <<>>]
    /\ pending = <<>>
    /\ stack = <<>>
    /\ exc = FALSE
    /\ result = "none"
    /\ ops = <<>>
    /\ pre = committed
    /\ call = NoCall
    /\ ncalls = 0
    /\ seq = NoSeq
    /\ returned = NULL

\* ModelFaker(Probe, db, config=config).create()
CreateProbe(self) ==
    /\ ncalls < MaxProbeCalls
    /\ Create(self, DefaultAmount)

NextColumns ==
    \/ \E self \in ProbeFakers : CreateProbe(self)
    \/ Step

SpecColumns == InitColumns /\ [][NextColumns]_vars

\* the same single create() on the probe schema whose second column is one of
\* ValueProbes
InitValues ==
    /\ probe \in ValueProbes
    /\ committed = [t \in TableNames |-> <<>>]
    /\ pending = <<>>
    /\ stack = <<>>
    /\ exc = FALSE
    /\ result = "none"
    /\ ops = <<>>
    /\ pre = committed
    /\ call = NoCall
    /\ ncalls = 0
    /\ seq = NoSeq
    /\ returned = NULL

SpecValues == InitValues /\ [][NextColumns]_vars

\* create() under a configuration that carries field_overrides
NextOverrides == (\E self \in OverrideFakers : CreateProbe(self)) \/ Step

SpecOverrides == InitColumns /\ [][NextOverrides]_vars

\* create(1) and create(2) under a configuration that carries seed and
\* bulk_size, on a probe schema with a String, Integer, Boolean or Enum column
\* or a foreign key
ConfiguredProbes ==
    { [PlainProbe EXCEPT !.type = t] : t \in {"String", "Integer", "Boolean", "Enum"} }
      \cup { [PlainProbe EXCEPT !.type = "Integer", !.fk = "Parent2", !.fkcol = "name"] }

InitConfigured ==
    /\ probe \in ConfiguredProbes
    /\ committed = [t \in TableNames |-> <<>>]
    /\ pending = <<>>
    /\ stack = <<>>
    /\ exc = FALSE
    /\ result = "none"
    /\ ops = <<>>
    /\ pre = committed
    /\ call = NoCall
    /\ ncalls = 0
    /\ seq = NoSeq
    /\ returned = NULL

NextConfigured ==
    (\E self \in ConfiguredFakers, amount \in {IntAmount(1), IntAmount(2)} :
        Create(self, amount)) \/ Step

SpecConfigured == InitConfigured /\ [][NextConfigured]_vars

(* ------------------------------- reset() ------------------------------- *)
\* reset(confirm): a destructive operation that fails fast, touching no data,
\* unless confirm is true; otherwise it deletes all rows of the schema and
\* returns how many there were
NeverRequired(confirm) == FALSE

ConfirmationRequired(confirm) == ~confirm

ResetCall(self, confirm) ==
    [model |-> self.model, config |-> self.config,
     amount |-> [kind |-> IF confirm THEN "reset(confirm=True)" ELSE "reset()",
                 n |-> 0]]

Reset(self, confirm) ==
    /\ stack = <<>>
    /\ ncalls < MaxResetCalls
    /\ ncalls' = ncalls + 1
    /\ call' = ResetCall(self, confirm)
    /\ pre' = committed
    /\ seq' = DeadSeq
    /\ IF ConfirmationRequired(confirm)
       THEN /\ result' = "ConfirmationRequired"
            /\ returned' = NULL
            /\ ops' = <<>>
            /\ UNCHANGED committed
       ELSE /\ result' = "ok"
            /\ returned' = Val("int", Len(committed[self.model]))
            /\ ops' = <<"delete", "commit">>
            /\ committed' = [committed EXCEPT ![self.model] = <<>>]
    /\ UNCHANGED <<probe, pending, stack, exc>>

\* faker.create(amount=...) and faker.reset(...) on MyModel-like schemas, one
\* of them with a foreign key
ResetFakers ==
    { f \in ModelFaker : f.model \in {"Parent", "Child3"} /\ f.config = DefaultConfig }

CreateBeforeReset(self, amount) ==
    /\ ncalls < MaxResetCalls
    /\ Create(self, amount)

NextReset ==
    \/ \E self \in ResetFakers, amount \in {IntAmount(1), IntAmount(2)} :
          CreateBeforeReset(self, amount)
    \/ \E self \in ResetFakers, confirm \in BOOLEAN : Reset(self, confirm)
    \/ Step

SpecReset == Init /\ [][NextReset]_vars

\* a schema whose foreign key to Parent precedes a column with a doc string
InitDocs ==
    /\ probe \in DocProbes
    /\ committed = [t \in TableNames |-> <<>>]
    /\ pending = <<>>
    /\ stack = <<>>
    /\ exc = FALSE
    /\ result = "none"
    /\ ops = <<>>
    /\ pre = committed
    /\ call = NoCall
    /\ ncalls = 0
    /\ seq = NoSeq
    /\ returned = NULL

LinkedFakers == { f \in ModelFaker : f.model = "Linked" /\ f.config = DefaultConfig }

NextDocs == (\E self \in LinkedFakers : CreateProbe(self)) \/ Step

SpecDocs == InitDocs /\ [][NextDocs]_vars

(* ------------------------- smart field detector ------------------------ *)
\* SmartFieldDetector.detect_and_generate(column): the class is not among the
\* sources; its behaviour is taken from tests/test_smart_field_detector.py
\* (email and address names) and, for the category order, from the
\* specification.  Column names are sequences of characters.
Letters == <<"a", "b", "c", "d", "e", "f", "g", "h", "i", "j", "k", "l", "m", "n", "o", "p", "q", "r", "s", "t", "u", "v", "w", "x", "y", "z">>
Capitals == <<"A", "B", "C", "D", "E", "F", "G", "H", "I", "J", "K", "L", "M", "N", "O", "P", "Q", "R", "S", "T", "U", "V", "W", "X", "Y", "Z">>

LetterIndex(alphabet, c) == CHOOSE i \in 1..Len(alphabet) : alphabet[i] = c
IsIn(alphabet, c) == \E i \in 1..Len(alphabet) : alphabet[i] = c

\* str.lower() and str.upper(), character by character
lower(name) ==
    [i \in 1..Len(name) |->
        IF IsIn(Capitals, name[i]) THEN Letters[LetterIndex(Capitals, name[i])]
        ELSE name[i]]
upper(name) ==
    [i \in 1..Len(name) |->
        IF IsIn(Letters, name[i]) THEN Capitals[LetterIndex(Letters, name[i])]
        ELSE name[i]]
\* camel-case spelling: the first character in upper case
capitalize(name) ==
    [i \in 1..Len(name) |-> IF i = 1 THEN upper(name)[1] ELSE name[i]]

EndsWith(name, suffix) ==
    /\ Len(suffix) <= Len(name)
    /\ SubSeq(name, Len(name) - Len(suffix) + 1, Len(name)) = suffix
Contains(name, keyword) ==
    \E i \in 1..(Len(name) - Len(keyword) + 1) :
        SubSeq(name, i, i + Len(keyword) - 1) = keyword

Email == <<"e", "m", "a", "i", "l">>
EmailAddress == <<"e", "m", "a", "i", "l", "_", "a", "d", "d", "r", "e", "s", "s">>
UnderscoreEmail == <<"_", "e", "m", "a", "i", "l">>
Address == <<"a", "d", "d", "r", "e", "s", "s">>
Street == <<"s", "t", "r", "e", "e", "t">>
UnderscoreAddress == <<"_", "a", "d", "d", "r", "e", "s", "s">>

\* length of the run of "a" put before "_email" (1000 in the test)
LongNamePad == 3
Padding(n) == [i \in 1..n |-> "a"]

\* the column names of the tests on email and address columns and of the
\* edge-case tests
TestedNames ==
    { Email, EmailAddress, <<"u", "s", "e", "r", "_", "e", "m", "a", "i", "l">>, <<"w", "o", "r", "k", "_", "e", "m", "a", "i", "l">>,
      <<"e", "m", "a", "i", "l", "_", "l", "i", "k", "e", "_", "b", "u", "t", "_", "n", "o", "t">>, <<"r", "a", "n", "d", "o", "m", "_", "f", "i", "e", "l", "d">>,
      << >>, <<"1", "2", "3">>, <<"f", "i", "e", "l", "d", "@", "n", "a", "m", "e">>,
      Address, Street, <<"s", "t", "r", "e", "e", "t", "_", "a", "d", "d", "r", "e", "s", "s">>, <<"b", "i", "l", "l", "i", "n", "g", "_", "a", "d", "d", "r", "e", "s", "s">> }
        \cup { Padding(n) \o UnderscoreEmail : n \in 1..LongNamePad }

DetectorNames ==
    TestedNames \cup { upper(n) : n \in TestedNames }
                \cup { capitalize(n) : n \in TestedNames }

DetectorColumns ==
    { Col(n, "String", FALSE, FALSE, FALSE, FALSE, "none", "none", "none") :
        n \in DetectorNames }

\* the name patterns of a category: whole names and name endings.  "email",
\* "email_address" and every "..._email" are detected, "email_like_but_not"
\* is not (test_partial_match_not_triggered).
Patterns ==
    [email   |-> [whole |-> {Email, EmailAddress}, ending |-> {UnderscoreEmail}],
     address |-> [whole |-> {Address, Street}, ending |-> {UnderscoreAddress}]]

Matches(category, name) ==
    \/ lower(name) \in Patterns[category].whole
    \/ \E e \in Patterns[category].ending : EndsWith(lower(name), e)

\* the order in which the categories are tried
AddressBeforeEmail == <<"address", "email">>
CategoryOrder == <<"email", "address">>

NoCategory == "none"
Category(name) ==
    IF \E k \in 1..Len(CategoryOrder) : Matches(CategoryOrder[k], name)
    THEN CategoryOrder[CHOOSE k \in 1..Len(CategoryOrder) :
                          /\ Matches(CategoryOrder[k], name)
                          /\ \A j \in 1..(k - 1) : ~Matches(CategoryOrder[j], name)]
    ELSE NoCategory

\* faker.email() and faker.address(): some of the values they draw
FakeEmails ==
    { <<"a", "@", "b", ".", "c">>, <<"x", ".", "y", "@", "e", "x", "a", "m", "p", "l", "e", ".", "o", "r", "g">>, <<"b", "o", "b", "@", "m", "a", "i", "l", ".", "c", "o", "m">> }
FakeAddresses ==
    { <<"1", " ", "M", "a", "i", "n", " ", "S", "t">>, <<"2", "2", " ", "O", "a", "k", " ", "A", "v", "e">>, <<"9", " ", "E", "l", "m", " ", "R", "d">> }

Generate(category) ==
    CASE category = "email"   -> { Val("str", e) : e \in FakeEmails }
      [] category = "address" -> { Val("str", a) : a \in FakeAddresses }

\* the values detect_and_generate(column) can return; NULL is None
detect_and_generate(column) ==
    IF Category(column.name) = NoCategory THEN {NULL}
    ELSE Generate(Category(column.name))

DetectCall == [model |-> "none", config |-> DefaultConfig,
               amount |-> [kind |-> "detect_and_generate", n |-> 0]]

Detect ==
    /\ stack = <<>>
    /\ ncalls < MaxProbeCalls
    /\ ncalls' = ncalls + 1
    /\ call' = DetectCall
    /\ returned' \in detect_and_generate(probe)
    /\ result' = "ok"
    /\ UNCHANGED <<probe, committed, pending, stack, exc, ops, pre, seq>>

InitDetector ==
    /\ probe \in DetectorColumns
    /\ committed = [t \in TableNames |-> <<>>]
    /\ pending = <<>>
    /\ stack = <<>>
    /\ exc = FALSE
    /\ result = "none"
    /\ ops = <<>>
    /\ pre = committed
    /\ call = NoCall
    /\ ncalls = 0
    /\ seq = NoSeq
    /\ returned = NULL

NextDetector == Detect

SpecDetector == InitDetector /\ [][NextDetector]_vars

(* ----------------------- chains of nested create() --------------------- *)
\* create() on schemas whose foreign keys form a chain (Child, Child3), a
\* cycle through a nullable column (Node) and a cycle through a non-nullable
\* column (Loop)
ChainFakers ==
    { f \in ModelFaker :
        \/ f.model \in {"Child", "Child3", "Node", "Loop"} /\ f.config = DefaultConfig
        \/ f.model = "Node" /\ f.config = [DefaultConfig EXCEPT !.fill_nullable_fields = TRUE] }

CreateChain(self, amount) ==
    /\ ncalls < MaxChainCalls
    /\ Create(self, amount)

NextChains ==
    \/ \E self \in ChainFakers, amount \in {IntAmount(1), IntAmount(2)} :
          CreateChain(self, amount)
    \/ Step

\* the statements of a running create() are executed one after the other
SpecChains == Init /\ [][NextChains]_vars /\ WF_vars(Step)

(* ------------------------ the two insert operations -------------------- *)
\* foreign-key columns with and without a relationship declared under the
\* column's name
HandleProbes ==
    { [Col("p", t, FALSE, FALSE, FALSE, FALSE, fk[1], fk[2], "none")
          EXCEPT !.relationship = r] :
        t \in {"Integer", "String"},
        fk \in {<<"Parent", "id">>, <<"Parent2", "name">>},
        r \in BOOLEAN }

InitHandles ==
    /\ probe \in HandleProbes
    /\ committed = [t \in TableNames |-> <<>>]
    /\ pending = <<>>
    /\ stack = <<>>
    /\ exc = FALSE
    /\ result = "none"
    /\ ops = <<>>
    /\ pre = committed
    /\ call = NoCall
    /\ ncalls = 0
    /\ seq = NoSeq
    /\ returned = NULL

\* a mapped class with a foreign key, a mapped class without one and an
\* association table
HandleFakers ==
    { f \in ModelFaker :
        f.model \in {"Probe", "Parent", "Assoc"} /\ f.config = DefaultConfig }

CreateOnHandle(self, amount) ==
    /\ ncalls < MaxProbeCalls
    /\ Create(self, amount)

NextHandles ==
    \/ \E self \in HandleFakers, amount \in {IntAmount(1), IntAmount(2)} :
          CreateOnHandle(self, amount)
    \/ Step

SpecHandles == InitHandles /\ [][NextHandles]_vars

(* ======================= properties of the claims ====================== *)
Idle == stack = <<>>
Finished == Idle /\ ncalls > 0
Frames == { stack[i] : i \in 1..Len(stack) }
Last(sq) == sq[Len(sq)]

\* the skip rule as the specification words it
ClaimSkip(c, cfg) ==
    \/ (c.primary_key /\ c.autoincrement /\ c.type = "Integer")
    \/ (c.default /\ ~cfg.fill_default_fields)
    \/ (c.nullable /\ ~cfg.fill_nullable_fields)

\* the precedence of value sources as the specification words it
Ranking == <<"doc", "enum", "fk", "pk", "type">>
Qualifies(c) ==
    { "type" }
      \cup (IF c.doc # "none" THEN {"doc"} ELSE {})
      \cup (IF c.type = "Enum" THEN {"enum"} ELSE {})
      \cup (IF c.fk # "none" THEN {"fk"} ELSE {})
      \cup (IF c.primary_key THEN {"pk"} ELSE {})
ClaimBest(c) ==
    Ranking[CHOOSE i \in 1..Len(Ranking) :
              /\ Ranking[i] \in Qualifies(c)
              /\ \A j \in 1..(i - 1) : Ranking[j] \notin Qualifies(c)]

\* rows of schema p that one synthesized row of model creates through the
\* foreign keys it resolves, counted from column k on
RECURSIVE FkRows(_, _, _, _)
FkRows(model, config, p, k) ==
    IF k > Len(Models[model].columns) THEN 0
    ELSE LET c == Models[model].columns[k]
         IN (IF ~ClaimSkip(c, config) /\ ClaimBest(c) = "fk"
             THEN (IF c.fk = p THEN 1 ELSE 0) + FkRows(c.fk, DefaultConfig, p, 1)
             ELSE 0)
            + FkRows(model, config, p, k + 1)

\* C1: a create() that raised leaves the committed rows of every schema as
\* they were before the call
C1_FailedCreateCommitsNothing ==
    (Finished /\ result = "RuntimeError") => committed = pre

\* C2: after a sequence of successful create(amount) calls on one schema
\* (store initially empty) the schema holds the sum of the amounts
C2_RowCountIsSumOfAmounts ==
    (Idle /\ seq.ok /\ seq.model # "none")
        => Len(committed[seq.model]) = seq.sum

\* C3: a non-integer amount raises InvalidAmountError before any store
\* operation; the store is unchanged
C3_NonIntegerAmountRejected ==
    (call.amount.kind # "int")
        => /\ Idle
           /\ result = "InvalidAmountError"
           /\ ops = <<>>
           /\ committed = pre
           /\ pending = <<>>

C3_Witness ==
    /\ call.amount.kind = "float"
    /\ result = "InvalidAmountError"
    /\ ncalls = 2
    /\ Len(committed["Child"]) = 2

\* C4: a negative integer amount raises InvalidAmountError and no store
\* operation is invoked
C4_NegativeAmountRejected ==
    (Finished /\ call.amount.kind = "int" /\ call.amount.n < 0)
        => /\ result = "InvalidAmountError"
           /\ ops = <<>>
           /\ committed = pre

\* C5: create(0) succeeds, changes no row count and invokes no add, execute,
\* commit or rollback
C5_ZeroAmountNoTransaction ==
    (Finished /\ call.amount = IntAmount(0))
        => /\ result = "ok"
           /\ committed = pre
           /\ ops = <<>>

\* one parent row, one new child row, and the child's foreign key equal to the
\* parent's referenced attribute
OneParentOneChild(c) ==
    /\ Len(committed[c.fk]) = 1
    /\ Len(committed[call.model]) = Len(pre[call.model]) + 1
    /\ Last(committed[call.model])[c.name] = committed[c.fk][1][c.fkcol]

\* C6 as claimed: create(1) on a schema with a non-nullable foreign key to an
\* empty parent ends with one parent row, one new child row, and the child's
\* foreign key equal to the parent's referenced attribute
C6_Original ==
    (Finished /\ result = "ok" /\ call.amount = IntAmount(1))
        => \A k \in 1..Len(Models[call.model].columns) :
             LET c == Models[call.model].columns[k]
             IN (c.fk # "none" /\ ~c.nullable /\ pre[c.fk] = <<>>) => OneParentOneChild(c)

\* C6 amended: the same, provided the foreign-key column is resolved through
\* the foreign-key source (not skipped, no doc string, no enumeration type)
\* and is the only foreign-key resolution of the call that targets the parent
C6_OneParentOneChild ==
    (Finished /\ result = "ok" /\ call.amount = IntAmount(1))
        => \A k \in 1..Len(Models[call.model].columns) :
             LET c == Models[call.model].columns[k]
             IN (/\ c.fk # "none" /\ ~c.nullable /\ pre[c.fk] = <<>>
                 /\ ~ClaimSkip(c, call.config) /\ ClaimBest(c) = "fk"
                 /\ FkRows(call.model, call.config, c.fk, 1) = 1)
                => OneParentOneChild(c)

C6_Witness ==
    /\ Finished /\ result = "ok" /\ call.amount = IntAmount(1)
    /\ probe.fk = "Parent2" /\ ~probe.nullable /\ ~probe.default
    /\ ClaimBest(probe) = "fk"
    /\ Len(committed["Parent2"]) = 1
    /\ Len(committed["Probe"]) = 1
    /\ committed["Probe"][1]["p"] = committed["Parent2"][1]["name"]

\* C7: a column is omitted from the synthesized row iff it is an
\* auto-incrementing integer primary key, or has a default and
\* fillDefaultFields is false, or is nullable and fillNullableFields is false
C7_SkipRule ==
    \A f \in Frames : \A k \in 1..Len(Columns(f)) :
        k < f.col =>
           (Columns(f)[k].name \in DOMAIN f.data
               <=> ~ClaimSkip(Columns(f)[k], f.config))

C7_Witness ==
    /\ stack # <<>> /\ Top.model = "Probe" /\ Top.col = 3
    /\ probe.primary_key /\ probe.autoincrement /\ probe.type = "String"
    /\ DOMAIN Top.data = {"p"}

\* C8: every non-skipped column is produced by exactly one value source, the
\* highest ranked of doc string > enumeration > foreign key > primary key >
\* type; no lower source is entered and no parent row is created for a
\* foreign-key column that has a doc string or an enumeration type
C8_SourcePrecedence ==
    /\ \A f \in Frames :
          /\ \A e \in 1..Len(f.used) :
                \E k \in 1..Len(Columns(f)) :
                    /\ Columns(f)[k].name = f.used[e].col
                    /\ f.used[e].src = ClaimBest(Columns(f)[k])
          /\ \A k \in 1..Len(Columns(f)) :
                (k < f.col /\ ~ClaimSkip(Columns(f)[k], f.config))
                    => Cardinality({ e \in 1..Len(f.used) :
                                       f.used[e].col = Columns(f)[k].name }) = 1
    /\ \A i \in 1..(Len(stack) - 1) :
          /\ stack[i].pc = "query"
          /\ ClaimBest(Columns(stack[i])[stack[i].col]) = "fk"
    /\ (call.model = "Probe" /\ probe.fk # "none" /\ ClaimBest(probe) # "fk")
          => committed[probe.fk] = pre[probe.fk]

C8_Witness ==
    /\ Finished /\ result = "ok" /\ call.model = "Probe"
    /\ probe.fk = "Parent" /\ probe.type = "Enum" /\ probe.primary_key
    /\ probe.doc = "none"
    /\ committed["Probe"][1]["p"].kind = "enum"
    /\ committed["Parent"] = <<>>

\* C9: a nullable column is omitted when fillNullableFields is false, and the
\* value produced for it when fillNullableFields is true is never null
C9_NullableNeverNullWhenFilled ==
    \A f \in Frames : \A k \in 1..Len(Columns(f)) :
        LET c == Columns(f)[k]
        IN (k < f.col /\ c.nullable) =>
              /\ ~f.config.fill_nullable_fields => c.name \notin DOMAIN f.data
              /\ (f.config.fill_nullable_fields /\ c.name \in DOMAIN f.data)
                    => f.data[c.name] # NULL

\* C10 as claimed: a column with a default is omitted when fillDefaultFields
\* is false and receives a synthesized value whenever fillDefaultFields is
\* true, whatever its nullable flag and fillNullableFields
C10_Original ==
    \A f \in Frames : \A k \in 1..Len(Columns(f)) :
        LET c == Columns(f)[k]
        IN (k < f.col /\ c.default) =>
              (c.name \in DOMAIN f.data <=> f.config.fill_default_fields)

\* C10 amended: omitted (and stored as the default) when fillDefaultFields is
\* false; when it is true the column receives a value unless another skip
\* rule omits it: nullable with fillNullableFields false, or an
\* auto-incrementing integer primary key
C10_DefaultedColumn ==
    /\ \A f \in Frames : \A k \in 1..Len(Columns(f)) :
          LET c == Columns(f)[k]
          IN (k < f.col /\ c.default) =>
                /\ ~f.config.fill_default_fields => c.name \notin DOMAIN f.data
                /\ f.config.fill_default_fields =>
                     (c.name \in DOMAIN f.data
                        <=> /\ ~(c.nullable /\ ~f.config.fill_nullable_fields)
                            /\ ~(c.primary_key /\ c.autoincrement
                                   /\ c.type = "Integer"))
    /\ (call.model = "Probe" /\ probe.default
          /\ ~call.config.fill_default_fields)
          => \A r \in (Len(pre["Probe"]) + 1)..Len(committed["Probe"]) :
                committed["Probe"][r]["p"] = DefaultArg

C10_Witness ==
    /\ Finished /\ result = "ok" /\ call.model = "Probe"
    /\ probe.default /\ probe.nullable
    /\ call.config.fill_default_fields /\ call.config.fill_nullable_fields
    /\ Len(committed["Probe"]) > Len(pre["Probe"])
    /\ Last(committed["Probe"])["p"].kind = "str"

\* the values held for the probe column that the source src produced: in a row
\* under construction, in the pending rows and in the rows the call committed
ProbeValues(src) ==
    { f.data["p"] : f \in { g \in Frames :
          /\ g.model = "Probe" /\ "p" \in DOMAIN g.data
          /\ [col |-> "p", src |-> src] \in { g.used[e] : e \in 1..Len(g.used) } } }
      \cup (IF ValueSource(probe) = src /\ call.model = "Probe"
            THEN { pending[i].data["p"] :
                     i \in { j \in 1..Len(pending) :
                               /\ pending[j].table = "Probe"
                               /\ "p" \in DOMAIN pending[j].data } }
                 \cup { committed["Probe"][i]["p"] :
                          i \in (Len(pre["Probe"]) + 1)..Len(committed["Probe"]) }
            ELSE {})

\* C11: an Integer column resolved by its type whose info sets both min and
\* max only gets integers v with min <= v <= max
C11_IntegerWithinInfoBounds ==
    (probe.type = "Integer" /\ probe.info.hasMin /\ probe.info.hasMax)
        => \A x \in ProbeValues("type") :
              /\ x.kind = "int"
              /\ probe.info.min <= x.v
              /\ x.v <= probe.info.max

C11_Witness ==
    /\ Finished /\ result = "ok"
    /\ probe.type = "Integer"
    /\ probe.info = Info(TRUE, 100, TRUE, 101, FALSE)
    /\ Len(committed["Probe"]) = 1
    /\ committed["Probe"][1]["p"] = Val("int", 101)

\* C12: an Integer column resolved by its type gets an integer in [lo, hi],
\* lo = info.min if present else 1, hi = info.max if present else 100; with an
\* empty info map that is [1, 100]
C12_IntegerDefaultBounds ==
    (probe.type = "Integer")
        => \A x \in ProbeValues("type") :
              /\ x.kind = "int"
              /\ (IF probe.info.hasMin THEN probe.info.min ELSE 1) <= x.v
              /\ x.v <= (IF probe.info.hasMax THEN probe.info.max ELSE 100)

\* the probe column was resolved by source src and no value came of it
Raised(src) ==
    \E f \in Frames :
        /\ f.model = "Probe" /\ "p" \notin DOMAIN f.data
        /\ [col |-> "p", src |-> src] \in { f.used[e] : e \in 1..Len(f.used) }

\* C13: a Float column declared with precision p and scale s, whichever way
\* the type declares them, gets a value, and the value is non-negative, has at
\* most s digits after the decimal point and is at most 10^(p-s) - 1
C13_FloatWithinPrecision ==
    (/\ probe.type = "Float" /\ probe.precision.kind # "none"
     /\ probe.precision.p > probe.precision.s)
        => /\ ~Raised("type")
           /\ \A x \in ProbeValues("type") :
                 /\ x.kind = "float"
                 /\ 0 <= x.v
                 /\ x.v % Pow10(FloatDigits - probe.precision.s) = 0
                 /\ x.v <= (Pow10(probe.precision.p - probe.precision.s) - 1)
                               * FloatUnit

\* C14: a String column resolved by its type gets a text no longer than the
\* declared length; without a declared length generation succeeds and the
\* text is at most 255 characters long
C14_StringWithinLength ==
    (probe.type \in {"String", "Text"})
        => /\ probe.length = NoLength => ~Raised("type")
           /\ \A x \in ProbeValues("type") :
                 /\ x.kind = "str"
                 /\ x.v <= (IF probe.length = NoLength THEN 255 ELSE probe.length)

\* the kind of value a declared column type calls for
KindOf(type) ==
    CASE type \in {"String", "Text"} -> "str"
      [] type = "Integer"  -> "int"
      [] type = "Float"    -> "float"
      [] type = "Boolean"  -> "bool"
      [] type = "Date"     -> "date"
      [] type = "DateTime" -> "datetime"
      [] type = "Decimal"  -> "decimal"
      [] type = "Time"     -> "time"
      [] type = "Interval" -> "duration"
      [] type = "LargeBinary" -> "bytes"
      [] type = "Json"     -> "json"
      [] OTHER             -> "none"

\* C18: a primary-key column that is not skipped and has no doc string,
\* enumeration type or foreign key gets a primitive of the kind of its
\* declared type: an integer for an Integer key, a string for a String key
C18_PrimaryKeyKind ==
    (probe.primary_key /\ probe.type \in {"Integer", "String"})
        => \A x \in ProbeValues("pk") : x.kind = KindOf(probe.type)

\* C19: a column of a type the type fallback names no branch for (Decimal,
\* Time, Interval, LargeBinary, Json) gets a non-null value of the matching
\* kind, so create() does not fail on such a NOT NULL column
C19_OtherTypesNonNull ==
    (probe.type \in OtherTypes)
        => \A x \in ProbeValues("type") :
              /\ x # NULL
              /\ x.kind = KindOf(probe.type)

\* the texts held for the doc-string column of the Linked schema: in a row
\* under construction, in the pending rows and in the committed rows
LinkedTexts ==
    { f.data["p"] : f \in { g \in Frames :
                               g.model = "Linked" /\ "p" \in DOMAIN g.data } }
      \cup { pending[i].data["p"] :
                i \in { j \in 1..Len(pending) :
                          /\ pending[j].table = "Linked"
                          /\ "p" \in DOMAIN pending[j].data } }
      \cup { committed["Linked"][i]["p"] : i \in 1..Len(committed["Linked"]) }

TypeNames == {"string", "integer", "float", "boolean", "date", "datetime"}

\* the Python type a template leaf names
LeafType(name) ==
    CASE name = "integer" -> "int"
      [] name = "float"   -> "float"
      [] name = "boolean" -> "bool"
      [] OTHER            -> "str"

\* out has the shape of the template and its leaves the types the template names
RECURSIVE SameShape(_, _)
SameShape(tmpl, out) ==
    CASE tmpl.t \in {"dict", "list"} ->
           /\ out.t = tmpl.t
           /\ out.keys = tmpl.keys
           /\ Len(out.items) = Len(tmpl.items)
           /\ \A i \in 1..Len(tmpl.items) : SameShape(tmpl.items[i], out.items[i])
      [] tmpl.t = "str" /\ tmpl.s \in TypeNames -> out.t = LeafType(tmpl.s)
      [] OTHER -> out = tmpl

\* C15: the value of a column with a doc-string template is the JSON text of
\* the populated structure: parsing it as JSON succeeds and gives the shape of
\* the template, every leaf of the type its template leaf names
C15_DocValueIsJson ==
    \A x \in LinkedTexts :
        /\ loads(x.v).ok
        /\ SameShape(loads(DocText(probe.doc)).node, loads(x.v).node)

\* populating as the specification words it: a leaf that names a type is
\* synthesized, any other leaf is kept as it is
RECURSIVE ClaimPopulate(_)
RECURSIVE ClaimPopulateAll(_)
ClaimPopulate(structure) ==
    CASE structure.t = "dict" ->
           { PyDict(structure.keys, items) : items \in ClaimPopulateAll(structure.items) }
      [] structure.t = "list" ->
           { PyList(items) : items \in ClaimPopulateAll(structure.items) }
      [] structure.t = "str" /\ structure.s \in TypeNames ->
           PopulateLeaf(structure)
      [] OTHER -> { structure }

ClaimPopulateAll(items) ==
    IF items = <<>> THEN { <<>> }
    ELSE { <<h>> \o t : h \in ClaimPopulate(Head(items)),
                        t \in ClaimPopulateAll(Tail(items)) }

\* C16: in the output of a doc-string template every leaf that is not one of
\* the literal type names appears unchanged, as the literal it is
C16_OtherLeavesUnchanged ==
    (probe.doc # "scalar")
        => \A x \in LinkedTexts :
              x.v \in { str(d) : d \in ClaimPopulate(loads(DocText(probe.doc)).node) }

\* C17: when the doc string of a column that is not skipped is no valid JSON,
\* create() raises the wrapped error after a rollback, no row of the call is
\* committed, and the column gets no value from any source
C17_MalformedDocIsFatal ==
    (probe.doc = "malformed")
        => /\ LinkedTexts = {}
           /\ \A f \in Frames : \A e \in 1..Len(f.used) :
                 f.used[e].col = "p" => f.used[e].src = "doc"
           /\ Finished
                 => /\ result = "RuntimeError"
                    /\ Last(ops) = "rollback"
                    /\ pending = <<>>
                    /\ committed = pre

\* C20: when the configuration holds a field override for a column name,
\* every row create() produces has for that column the value the override
\* function returns, whatever the declared type, and no other value source is
\* consulted for it
C20_FieldOverrideWins ==
    \A f \in Frames :
        ("field_overrides" \in DOMAIN f.config) =>
            \A k \in 1..Len(Columns(f)) :
                LET c == Columns(f)[k]
                IN (c.name \in DOMAIN f.config.field_overrides) =>
                      /\ \A e \in 1..Len(f.used) : f.used[e].col # c.name
                      /\ k < f.col =>
                            /\ c.name \in DOMAIN f.data
                            /\ f.data[c.name] = f.config.field_overrides[c.name]

\* C21: two ModelFaker instances with the same configuration (same seed) on
\* the same schema synthesize the same sequence of values, whatever the column
\* kind: after one successful create() of each, the k-th row of the second
\* equals the k-th row of the first
C21_SeedReproducible ==
    (Idle /\ seq.ok /\ ncalls = 2 /\ "seed" \in DOMAIN call.config)
        => LET earlier == Len(pre["Probe"])
               later == Len(committed["Probe"]) - earlier
           IN \A k \in 1..(IF earlier < later THEN earlier ELSE later) :
                 committed["Probe"][k]["p"] = committed["Probe"][earlier + k]["p"]

\* how often op occurs in the log of store operations
RECURSIVE Count(_, _)
Count(log, op) ==
    IF log = <<>> THEN 0
    ELSE (IF Head(log) = op THEN 1 ELSE 0) + Count(Tail(log), op)

CeilDiv(a, b) == (a + b - 1) \div b

\* C22: a successful create(amount), amount > 0, under bulk size b commits
\* once per batch of at most b rows, ceil(amount / b) times, and adds exactly
\* amount rows (the probe schema has no foreign key, so every commit is one of
\* the schema's own rows)
C22_CommitPerBatch ==
    (/\ Finished /\ result = "ok" /\ call.amount.n > 0
     /\ "bulk_size" \in DOMAIN call.config /\ probe.fk = "none")
        => /\ Count(ops, "commit") = CeilDiv(call.amount.n, call.config.bulk_size)
           /\ Len(committed["Probe"]) = Len(pre["Probe"]) + call.amount.n

\* C23: reset() without confirm=true fails with the confirmation-required
\* error and deletes nothing; reset(confirm=true) returns the number of rows
\* the schema held and leaves it with zero rows (so that a second
\* reset(confirm=true) returns 0), the other schemas untouched
C23_ResetNeedsConfirmation ==
    /\ (call.amount.kind = "reset()")
          => /\ result = "ConfirmationRequired"
             /\ committed = pre
             /\ ops = <<>>
    /\ (call.amount.kind = "reset(confirm=True)")
          => /\ result = "ok"
             /\ returned = Val("int", Len(pre[call.model]))
             /\ committed[call.model] = <<>>
             /\ \A t \in TableNames \ {call.model} : committed[t] = pre[t]
             /\ (pre[call.model] = <<>>) => returned = Val("int", 0)

\* reset(confirm=True) deleted and counted the two rows of a create(2) on the
\* child schema; the parent rows are still there
C23_Witness ==
    /\ call.amount.kind = "reset(confirm=True)"
    /\ call.model = "Child3"
    /\ returned = Val("int", 2)
    /\ committed["Child3"] = <<>>
    /\ Len(committed["Parent2"]) = 2

Detected == call = DetectCall /\ ncalls > 0
HasAt(value) == value.kind = "str" /\ \E i \in 1..Len(value.v) : value.v[i] = "@"

EmailName(name) ==
    \/ lower(name) \in {Email, EmailAddress}
    \/ EndsWith(lower(name), UnderscoreEmail)

ForeignKeyColumn(model) == Models[model].columns[2]

ProbeSkipped ==
    /\ call.model = "Probe" /\ ncalls > 0
    /\ \/ (probe.primary_key /\ __is_field_auto_increment(probe))
       \/ __has_field_default_value(call.config, probe)
       \/ __is_field_nullable(call.config, probe)

\* C26: the skip rules are evaluated before any value source: for a skipped
\* column no source is entered and no value is stored, a skipped foreign-key
\* column starts no nested create() and adds no referenced row, and a skipped
\* column with a malformed doc string raises nothing (an exception can only
\* come from the session)
C26_SkipBeforeSources ==
    ProbeSkipped
        => /\ Len(stack) <= 1
           /\ \A f \in Frames :
                 /\ probe.name \notin DOMAIN f.data
                 /\ \A u \in 1..Len(f.used) : f.used[u].col # probe.name
           /\ \A t \in {"Parent", "Parent2"} : Query(t) = pre[t]
           /\ Count(ops, "query") = 0
           /\ exc => (ops # <<>> /\ Last(ops) \in {"add", "commit"})

\* a nullable foreign-key column with a malformed doc string was skipped:
\* the row is stored and no referenced row exists
C26_Witness ==
    /\ Finished /\ result = "ok" /\ ProbeSkipped
    /\ probe.nullable /\ ~probe.default /\ ~probe.primary_key
    /\ probe.doc = "malformed" /\ probe.fk = "Parent"
    /\ Len(committed["Probe"]) = 1
    /\ committed["Parent"] = <<>>

\* the schemas the non-skipped foreign-key columns of a schema refer to
Targets(model, config) ==
    { Models[model].columns[k].fk : k \in
        { j \in 1..Len(Models[model].columns) :
            LET c == Models[model].columns[j]
            IN ~ClaimSkip(c, config) /\ ClaimBest(c) = "fk" } }

\* the number of create() calls on the longest chain of nested calls that
\* starts at the schema, followed for at most fuel calls; the nested calls
\* run under the default configuration
RECURSIVE ChainLength(_, _, _)
ChainLength(model, config, fuel) ==
    IF fuel = 0 THEN 0
    ELSE LET below == { ChainLength(t, DefaultConfig, fuel - 1) :
                          t \in Targets(model, config) }
         IN 1 + (IF below = {} THEN 0
                 ELSE CHOOSE m \in below : \A o \in below : o <= m)

\* the foreign keys reachable from the call's schema form no cycle
Acyclic(c) ==
    ChainLength(c.model, c.config, Cardinality(TableNames) + 1)
        <= Cardinality(TableNames)

\* C27: create() eventually finishes whenever the foreign-key graph over the
\* non-skipped foreign-key columns is acyclic, and nests no deeper than the
\* longest chain of that graph; a cycle through a column that the nested
\* (default) configuration skips, such as a nullable self-reference, does not
\* prevent termination
C27_AcyclicCreateTerminates ==
    /\ []((stack # <<>> /\ Acyclic(call))
            => Len(stack) <= ChainLength(call.model, call.config,
                                         Cardinality(TableNames)))
    /\ ((stack # <<>> /\ Acyclic(call)) ~> (stack = <<>>))

\* create() on Node with fill_nullable_fields resolved the self-reference
\* through one nested create() and finished: two rows, the second pointing
\* to the first
C27_Witness ==
    /\ Finished /\ result = "ok" /\ call.model = "Node"
    /\ call.config.fill_nullable_fields
    /\ call.amount = IntAmount(1)
    /\ Acyclic(call)
    /\ Len(committed["Node"]) = 2
    /\ committed["Node"][1]["parent_id"] = NULL
    /\ committed["Node"][2]["parent_id"] = committed["Node"][1]["id"]

\* C28: during one create(amount) call commit is invoked on the session only
\* once, as the last step after all rows of the call have been added: while
\* the call runs no commit has happened and no row is durable, also when
\* columns are resolved through foreign keys
C28_SingleFinalCommit ==
    /\ stack # <<>> => /\ committed = pre
                       /\ Count(ops, "commit") <= 1
                       /\ ~exc => Count(ops, "commit") = 0
    /\ (Finished /\ result = "ok")
          => (Count(ops, "commit") = 1 /\ Last(ops) = "commit")

\* C29: the nested create() of a foreign-key resolution runs with the default
\* configuration, not the caller's: also with fill_nullable_fields or
\* fill_default_fields set on the child's ModelFaker, the nullable column and
\* the defaulted column of the referenced schema's new row are skipped
C29_NestedCreateUsesDefaultConfig ==
    /\ \A d \in 2..Len(stack) :
          /\ stack[d].config = DefaultConfig
          /\ \A k \in 1..Len(Columns(stack[d])) :
                LET c == Columns(stack[d])[k]
                IN (c.nullable \/ c.default) => c.name \notin DOMAIN stack[d].data
    /\ call.model = "Probe"
          => \A r \in 1..Len(Query("Parent")) :
                /\ Query("Parent")[r]["code"] = NULL
                /\ Query("Parent")[r]["status"] = DefaultArg

\* a child created with both flags set: its own nullable, defaulted foreign
\* key was resolved, and the referenced row has neither code nor status
C29_Witness ==
    /\ Finished /\ result = "ok" /\ call.model = "Probe"
    /\ call.config.fill_nullable_fields /\ call.config.fill_default_fields
    /\ probe.fk = "Parent" /\ probe.nullable /\ probe.default
    /\ Len(committed["Parent"]) = 1
    /\ committed["Parent"][1]["code"] = NULL
    /\ committed["Parent"][1]["status"] = DefaultArg
    /\ committed["Probe"][1]["p"] = committed["Parent"][1]["id"]

\* whether the create() at depth d of the stack was constructed on a mapped
\* class: the top-level one by the schema's declaration, a nested one when
\* its caller is a mapped class with a relationship under the column's name
RECURSIVE OnMappedClass(_)
OnMappedClass(d) ==
    IF d = 1 THEN Models[stack[1].model].entity
    ELSE /\ OnMappedClass(d - 1)
         /\ Columns(stack[d - 1])[stack[d - 1].col].relationship

IsInsert(op) == op \in {"add", "execute"}

\* C30: every synthesized row is handed to the session by exactly one of two
\* operations, chosen by the kind of the handle alone: db.execute(insert) for
\* a handle without mapped class, db.add for a mapped class; in the nested
\* create() of a foreign-key resolution the handle is the relationship's
\* class or else the foreign key's target table
C30_InsertByHandleKind ==
    [][ /\ (pending' # pending /\ pending' # <<>>)
            => /\ Len(pending') = Len(pending) + 1
               /\ Len(ops') = Len(ops) + 1
               /\ IsInsert(Last(ops'))
        /\ (Len(ops') = Len(ops) + 1 /\ IsInsert(Last(ops')))
            => Last(ops') = (IF OnMappedClass(Len(stack)) THEN "add"
                             ELSE "execute") ]_vars

\* a mapped class whose foreign key has no relationship: the referenced row
\* went through db.execute, the row of the class itself through db.add
C30_Witness ==
    /\ Finished /\ result = "ok" /\ call.model = "Probe"
    /\ ~probe.relationship
    /\ ops = <<"execute", "commit", "query", "add", "commit">>
    /\ Len(committed["Probe"]) = 1
====
